---- MODULE Spec2Model ----
(***************************************************************************)
(* Model of src/main.py: the FastAPI handlers /availability, /book and     *)
(* /sms_confirmation, the Odoo client create_odoo_event, and the datetime  *)
(* string transforms they use.                                             *)
(*                                                                         *)
(* Python strings are sequences of one-character strings.  A Python call   *)
(* that may raise is an operator returning a record [exc, val]: exc is     *)
(* "none" when the call returns val, else the name of the exception.       *)
(***************************************************************************)
EXTENDS Integers, Sequences, FiniteSets, TLC

\* ------------------------------------------------------------------------
\* Bounds of the model
\* ------------------------------------------------------------------------

\* Longest generated input string of the datetime transforms.
MaxLen == 3

\* Characters the generated input strings are built from: the separators the
\* transforms look for, a whitespace character, and an ordinary character.
Alphabet == {"T", ".", "+", "-", " ", "Z", "0"}

\* ------------------------------------------------------------------------
\* Example strings: those of the docstring of clean_datetime and of the
\* service's specification, and two that are no ISO-8601 timestamps
\* ------------------------------------------------------------------------

DocFraction == <<"2", "0", "2", "5", "-", "1", "0", "-", "1", "6", "T", "1", "0", ":", "0", "0", ":", "0", "0", ".", "0", "0", "0", "0", "0", "0", "0">>
DocZulu == <<"2", "0", "2", "5", "-", "1", "0", "-", "1", "6", "T", "1", "0", ":", "0", "0", ":", "0", "0", "Z">>
DocOffset == <<"2", "0", "2", "5", "-", "1", "0", "-", "1", "6", "T", "1", "0", ":", "0", "0", ":", "0", "0", "+", "0", "9", ":", "3", "0">>
DocNaive == <<"2", "0", "2", "5", "-", "1", "0", "-", "1", "6", " ", "1", "0", ":", "0", "0", ":", "0", "0">>
DocPlain == <<"2", "0", "2", "5", "-", "1", "0", "-", "1", "6", "T", "1", "0", ":", "0", "0", ":", "0", "0">>
OffsetIn == <<"2", "0", "2", "5", "-", "0", "9", "-", "0", "6", "T", "0", "9", ":", "0", "0", ":", "0", "0", "+", "0", "9", ":", "3", "0">>
OffsetOut == <<"2", "0", "2", "5", "-", "0", "9", "-", "0", "6", "T", "0", "9", ":", "0", "0", ":", "0", "0">>
NegOffset == <<"2", "0", "2", "5", "-", "0", "9", "-", "0", "6", "T", "0", "9", ":", "0", "0", ":", "0", "0", "-", "0", "5", ":", "0", "0">>
SmsZulu == <<"2", "0", "2", "5", "-", "1", "0", "-", "1", "6", "T", "0", "0", ":", "3", "0", ":", "0", "0", "Z">>
BadMonth == <<"2", "0", "2", "5", "-", "1", "3", "-", "1", "6", "T", "1", "0", ":", "0", "0", ":", "0", "0">>
Garbage == <<"n", "e", "x", "t", " ", "t", "u", "e", "s", "d", "a", "y">>

Examples == {DocFraction, DocZulu, DocOffset, DocNaive, DocPlain, OffsetIn,
             OffsetOut, NegOffset, SmsZulu, BadMonth, Garbage}

\* Every string over Alphabet of length at most n.
StringsUpTo(n) == UNION {[1..k -> Alphabet] : k \in 0..n}

\* The inputs the transforms are applied to.
Inputs == StringsUpTo(MaxLen) \cup Examples

\* ------------------------------------------------------------------------
\* Python str methods
\* ------------------------------------------------------------------------

\* Index of the first occurrence of character c in s, 0 when there is none.
Find(s, c) ==
    IF \E i \in 1..Len(s) : s[i] = c
    THEN CHOOSE i \in 1..Len(s) : s[i] = c /\ \A j \in 1..(i - 1) : s[j] # c
    ELSE 0

\* s.split(c): the list of the pieces of s between the occurrences of c.
RECURSIVE Split(_, _)
Split(s, c) ==
    LET i == Find(s, c)
    IN  IF i = 0 THEN <<s>>
        ELSE <<SubSeq(s, 1, i - 1)>> \o Split(SubSeq(s, i + 1, Len(s)), c)

\* s.replace(c, new): every occurrence of character c replaced by string new.
RECURSIVE Replace(_, _, _)
Replace(s, c, new) ==
    IF s = <<>> THEN <<>>
    ELSE (IF Head(s) = c THEN new ELSE <<Head(s)>>) \o Replace(Tail(s), c, new)

Whitespace == {" "}

\* s.strip(): s without its leading and trailing whitespace.
Strip(s) ==
    LET keep == {i \in 1..Len(s) : s[i] \notin Whitespace}
    IN  IF keep = {} THEN <<>>
        ELSE LET lo == CHOOSE i \in keep : \A j \in keep : i <= j
                 hi == CHOOSE i \in keep : \A j \in keep : j <= i
             IN  SubSeq(s, lo, hi)

\* parts[i] on a Python list (0-based): raises IndexError past the end.
ListIndex(parts, i) ==
    IF i + 1 <= Len(parts)
    THEN [exc |-> "none", val |-> parts[i + 1]]
    ELSE [exc |-> "IndexError", val |-> <<>>]

\* ------------------------------------------------------------------------
\* Datetime transforms
\* ------------------------------------------------------------------------

\* The strip-offset transform of check_availability: x.split("+")[0].
StripOffsetAnySign(s) == Split(Split(s, "+")[1], "-")[1]
StripOffset(s) == Split(s, "+")[1]

\* The body of the try block of clean_datetime.
CleanTry(dt_str) ==
    LET time == ListIndex(Split(dt_str, "T"), 1)
    IN  IF time.exc # "none" THEN time
        ELSE [exc |-> "none",
              val |-> Strip(Split(dt_str, "T")[1] \o <<" ">>
                            \o Split(time.val, ".")[1])]

\* The except branch of clean_datetime.
CleanFallback(dt_str) == Split(Replace(dt_str, "T", <<" ">>), ".")[1]

\* clean_datetime: the try block, and the except branch when it raised.
clean_datetime_no_except(dt_str) == CleanTry(dt_str)
clean_datetime(dt_str) ==
    LET t == CleanTry(dt_str)
    IN  IF t.exc = "none" THEN t
        ELSE [exc |-> "none", val |-> CleanFallback(dt_str)]

\* ------------------------------------------------------------------------
\* format_datetime: ISO-8601 text to Adelaide local time, rendered for the SMS
\* ------------------------------------------------------------------------

DigitChars == <<"0", "1", "2", "3", "4", "5", "6", "7", "8", "9">>
IsDigit(c) == \E i \in 1..10 : DigitChars[i] = c
DigitVal(c) == (CHOOSE i \in 1..10 : DigitChars[i] = c) - 1
AllDigits(s) == s # <<>> /\ \A i \in 1..Len(s) : IsDigit(s[i])

RECURSIVE ToInt(_)
ToInt(s) ==
    IF s = <<>> THEN 0
    ELSE 10 * ToInt(SubSeq(s, 1, Len(s) - 1)) + DigitVal(s[Len(s)])

ValueError == [exc |-> "ValueError", val |-> <<>>]

\* The HH[:MM[:SS[.fff[fff]]]] part of an isoformat string, as
\* <<hour, minute, second, microsecond>>.
ParseClock(t) ==
    LET n == Len(t)
        shape == /\ n \in {2, 5, 8, 12, 15}
                 /\ AllDigits(SubSeq(t, 1, 2))
                 /\ n >= 5 => t[3] = ":" /\ AllDigits(SubSeq(t, 4, 5))
                 /\ n >= 8 => t[6] = ":" /\ AllDigits(SubSeq(t, 7, 8))
                 /\ n >= 12 => t[9] = "." /\ AllDigits(SubSeq(t, 10, n))
    IN  IF ~shape THEN ValueError
        ELSE [exc |-> "none",
              val |-> << ToInt(SubSeq(t, 1, 2)),
                         IF n >= 5 THEN ToInt(SubSeq(t, 4, 5)) ELSE 0,
                         IF n >= 8 THEN ToInt(SubSeq(t, 7, 8)) ELSE 0,
                         IF n = 12 THEN 1000 * ToInt(SubSeq(t, 10, 12))
                         ELSE IF n = 15 THEN ToInt(SubSeq(t, 10, 15)) ELSE 0 >>]

IsLeap(y) == y % 4 = 0 /\ (y % 100 # 0 \/ y % 400 = 0)
DaysInMonth(y, m) ==
    IF m = 2 THEN (IF IsLeap(y) THEN 29 ELSE 28)
    ELSE IF m \in {4, 6, 9, 11} THEN 30 ELSE 31
DaysBeforeYear(y) ==
    (y - 1) * 365 + (y - 1) \div 4 - (y - 1) \div 100 + (y - 1) \div 400
DaysBeforeMonth(y, m) ==
    <<0, 31, 59, 90, 120, 151, 181, 212, 243, 273, 304, 334>>[m]
    + (IF m > 2 /\ IsLeap(y) THEN 1 ELSE 0)
\* date.toordinal(): 0001-01-01 is day 1.
Ordinal(y, m, d) == DaysBeforeYear(y) + DaysBeforeMonth(y, m) + d
\* date.weekday(): Monday is 0, Sunday is 6.
Weekday(ord) == (ord + 6) % 7

\* datetime.fromisoformat on YYYY-MM-DD[*HH[:MM[:SS[.fff[fff]]]][+HH:MM[:SS[.ffffff]]]]
\* (the format CPython 3.7 to 3.10 accepts).  The value is
\* [date |-> <<y, m, d>>, clock |-> <<H, M, S, us>>, aware |-> whether an
\* offset was given, off |-> <<seconds, microseconds>> east of UTC].
FromIsoFormat(s) ==
    LET n    == Len(s)
        dOk  == /\ n >= 10
                /\ AllDigits(SubSeq(s, 1, 4)) /\ s[5] = "-"
                /\ AllDigits(SubSeq(s, 6, 7)) /\ s[8] = "-"
                /\ AllDigits(SubSeq(s, 9, 10))
        rest == SubSeq(s, 12, n)
        sgn  == IF \E i \in 1..Len(rest) : rest[i] \in {"+", "-"}
                THEN CHOOSE i \in 1..Len(rest) :
                        /\ rest[i] \in {"+", "-"}
                        /\ \A j \in 1..(i - 1) : rest[j] \notin {"+", "-"}
                ELSE 0
        tstr == IF sgn = 0 THEN rest ELSE SubSeq(rest, 1, sgn - 1)
        zstr == IF sgn = 0 THEN <<>> ELSE SubSeq(rest, sgn + 1, Len(rest))
        clk  == IF n = 10 THEN [exc |-> "none", val |-> <<0, 0, 0, 0>>]
                ELSE ParseClock(tstr)
        zone == IF sgn = 0 THEN [exc |-> "none", val |-> <<0, 0, 0, 0>>]
                ELSE IF Len(zstr) \notin {5, 8, 15} THEN ValueError
                ELSE ParseClock(zstr)
    IN  IF ~dOk \/ n = 11 \/ clk.exc # "none" \/ zone.exc # "none"
        THEN ValueError
        ELSE
        LET y    == ToInt(SubSeq(s, 1, 4))
            m    == ToInt(SubSeq(s, 6, 7))
            d    == ToInt(SubSeq(s, 9, 10))
            sign == IF sgn # 0 /\ rest[sgn] = "-" THEN -1 ELSE 1
            zsec == zone.val[1] * 3600 + zone.val[2] * 60 + zone.val[3]
        IN  IF \/ y < 1 \/ m < 1 \/ m > 12
               \/ d < 1 \/ d > DaysInMonth(y, m)
               \/ clk.val[1] > 23 \/ clk.val[2] > 59 \/ clk.val[3] > 59
               \/ zsec >= 86400
            THEN ValueError
            ELSE [exc |-> "none",
                  val |-> [date  |-> <<y, m, d>>,
                           clock |-> clk.val,
                           aware |-> sgn # 0,
                           off   |-> <<sign * zsec, sign * zone.val[4]>>]]

\* Day of the first Sunday of month m of year y.
FirstSunday(y, m) == CHOOSE d \in 1..7 : Weekday(Ordinal(y, m, d)) = 6

\* Whether instant a = <<day, second of day>> is before instant b.
Before(a, b) == a[1] < b[1] \/ (a[1] = b[1] /\ a[2] < b[2])

\* Year of the day with ordinal ord, looked for around year y.
YearOf(ord, y) ==
    CHOOSE c \in (y - 1)..(y + 1) :
        DaysBeforeYear(c) < ord /\ ord <= DaysBeforeYear(c + 1)

\* UTC offset, in seconds, of Australia/Adelaide at the UTC instant
\* <<day, second>>: +09:30, and +10:30 from the first Sunday of October,
\* 02:00 standard time, to the first Sunday of April, 03:00 daylight time
\* (the rule in force since 2008); both changes fall at 16:30 UTC of the
\* Saturday before.
ADL_STANDARD == 34200
ADL_DAYLIGHT == 37800
DST_CHANGE_UTC == 59400
AdelaideOffset(utc, y) ==
    LET uy    == YearOf(utc[1], y)
        start == <<Ordinal(uy, 10, FirstSunday(uy, 10)) - 1, DST_CHANGE_UTC>>
        end   == <<Ordinal(uy, 4, FirstSunday(uy, 4)) - 1, DST_CHANGE_UTC>>
    IN  IF Before(utc, end) \/ ~Before(utc, start)
        THEN ADL_DAYLIGHT ELSE ADL_STANDARD

\* <<day, second of day>> moved by delta seconds.
Shift(inst, delta) ==
    LET t == inst[2] + delta
    IN  <<inst[1] + t \div 86400, t % 86400>>

\* dt.astimezone(adl_tz): the Adelaide wall clock, to the second, of a parsed
\* datetime; a naive datetime is taken as local time of the host, whose UTC
\* offset is host_off seconds.
AsAdelaide(dt, host_off) ==
    LET y     == dt.date[1]
        osec  == IF dt.aware THEN dt.off[1] ELSE host_off
        ousec == IF dt.aware THEN dt.off[2] ELSE 0
        carry == IF dt.clock[4] - ousec < 0 THEN -1
                 ELSE IF dt.clock[4] - ousec >= 1000000 THEN 1 ELSE 0
        wall  == <<Ordinal(y, dt.date[2], dt.date[3]),
                   dt.clock[1] * 3600 + dt.clock[2] * 60 + dt.clock[3]>>
        utc   == Shift(wall, carry - osec)
    IN  Shift(utc, AdelaideOffset(utc, y))

MonthAbbr ==
    << <<"J", "a", "n">>, <<"F", "e", "b">>, <<"M", "a", "r">>,
       <<"A", "p", "r">>, <<"M", "a", "y">>, <<"J", "u", "n">>,
       <<"J", "u", "l">>, <<"A", "u", "g">>, <<"S", "e", "p">>,
       <<"O", "c", "t">>, <<"N", "o", "v">>, <<"D", "e", "c">> >>

Pad2(k) == <<DigitChars[(k \div 10) + 1], DigitChars[(k % 10) + 1]>>
Pad4(k) == Pad2(k \div 100) \o Pad2(k % 100)

\* strftime("%d %b %Y, %I:%M %p") of the instant <<day, second of day>>.
Strftime(inst, y) ==
    LET yy == YearOf(inst[1], y)
        mm == CHOOSE m \in 1..12 :
                 /\ DaysBeforeMonth(yy, m) < inst[1] - DaysBeforeYear(yy)
                 /\ inst[1] - DaysBeforeYear(yy)
                        <= DaysBeforeMonth(yy, m) + DaysInMonth(yy, m)
        dd == inst[1] - DaysBeforeYear(yy) - DaysBeforeMonth(yy, mm)
        hh == inst[2] \div 3600
        mi == (inst[2] % 3600) \div 60
        h12 == IF hh % 12 = 0 THEN 12 ELSE hh % 12
    IN  Pad2(dd) \o <<" ">> \o MonthAbbr[mm] \o <<" ">> \o Pad4(yy)
        \o <<",", " ">> \o Pad2(h12) \o <<":">> \o Pad2(mi) \o <<" ">>
        \o (IF hh < 12 THEN <<"A", "M">> ELSE <<"P", "M">>)

\* format_datetime(dt_str) on a host whose local UTC offset is host_off
\* seconds: raises ValueError when dt_str does not parse.
format_datetime_fallback(dt_str, host_off) ==
    LET dt == FromIsoFormat(Replace(dt_str, "Z", <<"+", "0", "0", ":", "0", "0">>))
    IN  IF dt.exc # "none" THEN [exc |-> "none", val |-> dt_str]
        ELSE [exc |-> "none",
              val |-> Strftime(AsAdelaide(dt.val, host_off), dt.val.date[1])]
format_datetime(dt_str, host_off) ==
    LET dt == FromIsoFormat(Replace(dt_str, "Z", <<"+", "0", "0", ":", "0", "0">>))
    IN  IF dt.exc # "none" THEN dt
        ELSE [exc |-> "none",
              val |-> Strftime(AsAdelaide(dt.val, host_off), dt.val.date[1])]

\* UTC offsets, in seconds, of the hosts the service is run on: UTC and
\* Adelaide standard time.
HostOffsets == {0, 34200}

\* ------------------------------------------------------------------------
\* JSON values, HTTP responses and the responses of the external services
\* ------------------------------------------------------------------------

\* A JSON value: its type and its text.
JNull == [t |-> "null", v |-> ""]
JInt(v) == [t |-> "int", v |-> v]
JBool(v) == [t |-> "bool", v |-> v]
JStr(v) == [t |-> "str", v |-> v]
JObj(v) == [t |-> "object", v |-> v]

\* Python truth value of a JSON value, and isinstance(x, int) (a bool is an int).
Truthy(x) ==
    CASE x.t = "null" -> FALSE
      [] x.t = "bool" -> x.v = "true"
      [] x.t = "int"  -> x.v # "0"
      [] x.t = "str"  -> x.v # ""
      [] OTHER        -> TRUE
IsInstanceInt(x) == x.t \in {"int", "bool"}

\* A response body: text that is not JSON, a JSON array, or a JSON object
\* with members m.
TextBody == [json |-> FALSE, kind |-> "text", m |-> [raw |-> JStr("<html>")]]
ArrayBody == [json |-> TRUE, kind |-> "array", m |-> [items |-> JStr("[]")]]
ObjectBody(m) == [json |-> TRUE, kind |-> "object", m |-> m]

\* dict.get(key): None when the key is absent.
DictGet(m, key) == IF key \in DOMAIN m THEN m[key] ELSE JNull

\* response.json(): raises when the body is not JSON.
Json(body) ==
    IF body.json THEN [exc |-> "none", val |-> body]
    ELSE [exc |-> "JSONDecodeError", val |-> body]

\* What requests.post gives: a response, or an exception when the service is
\* unreachable.
Response(status_code, body) ==
    [raised |-> FALSE, status_code |-> status_code, body |-> body]
Unreachable == [raised |-> TRUE, status_code |-> 0, body |-> TextBody]
NoResponse == [raised |-> FALSE, status_code |-> 0, body |-> TextBody]

HTTP_OK == 200
HTTP_CREATED == 201

\* Responses of the identity provider to acquire_token_for_client.
TokenResults == {[access_token |-> "tok"], [error |-> "invalid_client"]}

\* Responses of the calendar API.
GraphStatuses == {200, 201, 204, 400, 409, 503}
OutlookEventBody ==
    ObjectBody([id |-> JStr("E1"), subject |-> JStr("Intro call"),
                start |-> JObj("start"), end |-> JObj("end")])
OutlookNoIdBody ==
    ObjectBody([subject |-> JStr("Intro call"),
                start |-> JObj("start"), end |-> JObj("end")])
OutlookNullIdBody ==
    ObjectBody([id |-> JNull, subject |-> JStr("Intro call"),
                start |-> JObj("start"), end |-> JObj("end")])
GraphErrorBody == ObjectBody([error |-> JObj("ErrorConflict")])
SuggestionsBody ==
    ObjectBody([meetingTimeSuggestions |-> JObj("slots"),
                emptySuggestionsReason |-> JStr("")])
GraphEventResponses ==
    {Unreachable} \cup
    {Response(st, b) : st \in GraphStatuses,
                       b \in {TextBody, ArrayBody, OutlookEventBody,
                              OutlookNoIdBody, OutlookNullIdBody, GraphErrorBody}}
GraphFindResponses ==
    {Unreachable} \cup
    {Response(st, b) : st \in GraphStatuses,
                       b \in {TextBody, ArrayBody, SuggestionsBody, GraphErrorBody}}

\* Responses of the CRM JSON-RPC endpoint; the code never reads their status.
RpcBody(m) == ObjectBody(m @@ [jsonrpc |-> JStr("2.0")])
RpcErrorBody == RpcBody([error |-> JObj("odoo.exceptions.AccessDenied")])
OdooAuthResponses ==
    {Unreachable} \cup
    {Response(HTTP_OK, b) :
        b \in {TextBody, ArrayBody, RpcErrorBody}
              \cup {RpcBody([result |-> r]) :
                       r \in {JInt("7"), JInt("0"), JBool("true"),
                              JBool("false"), JNull, JStr("7")}}}
OdooCreateResponses ==
    {Unreachable} \cup
    {Response(HTTP_OK, b) :
        b \in {TextBody, ArrayBody, RpcErrorBody,
               RpcBody([id |-> JInt("2")]),
               RpcBody([error |-> JObj("ValidationError"), result |-> JInt("42")])}
              \cup {RpcBody([result |-> r]) : r \in {JInt("42"), JNull}}}

\* Outcomes of the SMS gateway's messages.create.
TwilioOutcomes == {"sent", "TwilioRestException"}

\* ------------------------------------------------------------------------
\* Requests
\* ------------------------------------------------------------------------

BookTimes == {DocPlain, DocZulu, DocFraction}
BookRequests ==
    {[subject |-> "Intro call", body |-> "Agenda", start_time |-> s,
      end_time |-> e, attendee |-> "a@b.com", attendee_name |-> "Guest",
      phone |-> "", location |-> "Microsoft Teams Meeting"] :
        s \in BookTimes, e \in BookTimes}

AvailabilityTimes == {OffsetIn, OffsetOut, NegOffset}
AvailabilityRequests ==
    {[start_time |-> s, end_time |-> e, duration |-> "PT30M"] :
        s \in AvailabilityTimes, e \in AvailabilityTimes}

SmsTimes == {SmsZulu, DocPlain, BadMonth, Garbage}
SmsRequests ==
    {[phone |-> "+61400000000", start_time |-> s, end_time |-> e] :
        s \in SmsTimes, e \in SmsTimes}
NoRequest == [phone |-> "", start_time |-> <<>>, end_time |-> <<>>]

\* ------------------------------------------------------------------------
\* How a request ends
\* ------------------------------------------------------------------------

Pending == [kind |-> "pending", status |-> 0, body |-> "pending"]
\* The handler returned body: FastAPI answers 200 with it.
Return(body) == [kind |-> "return", status |-> 200, body |-> body]
\* raise HTTPException(status_code, detail).
HTTPException(status_code, detail) ==
    [kind |-> "HTTPException", status |-> status_code, body |-> detail]
\* Any other exception leaves the handler: FastAPI answers 500.
Unhandled(exc) == [kind |-> "unhandled", status |-> 500, body |-> exc]

\* ------------------------------------------------------------------------
\* State
\* ------------------------------------------------------------------------

VARIABLES
    endpoint,           \* the handler serving the request, "none" when idle
    pc,                 \* the handler's position
    request,            \* the request body
    calls,              \* the external calls the request has made, in order
    response,           \* book_meeting: the calendar API's response
    outlook_event_id,   \* book_meeting: outlook_event_id
    uid,                \* create_odoo_event: uid
    start_fmt,          \* create_odoo_event / send_sms_confirmation: start_fmt
    stop_fmt,           \* create_odoo_event: stop_fmt; send_sms_confirmation: end_fmt
    result,             \* how the request ended
    fn, arg, ret        \* a datetime transform applied on its own

vars == <<endpoint, pc, request, calls, response, outlook_event_id, uid,
          start_fmt, stop_fmt, result, fn, arg, ret>>
handlerVars == <<endpoint, pc, request, calls, response, outlook_event_id,
                 uid, start_fmt, stop_fmt, result>>

NoReturn == [exc |-> "pending", val |-> <<>>]

Idle ==
    /\ endpoint = "none"
    /\ pc = "idle"
    /\ request = NoRequest
    /\ calls = <<>>
    /\ response = NoResponse
    /\ outlook_event_id = JNull
    /\ uid = JNull
    /\ start_fmt = <<>>
    /\ stop_fmt = <<>>
    /\ result = Pending

Init ==
    /\ Idle
    /\ fn = "none"
    /\ arg = <<>>
    /\ ret = NoReturn

Call(op, payload, resp) == [op |-> op, payload |-> payload, response |-> resp]

\* ------------------------------------------------------------------------
\* get_token
\* ------------------------------------------------------------------------

get_token(token_result) ==
    IF "access_token" \notin DOMAIN token_result
    THEN [exc |-> "Exception", val |-> ""]
    ELSE [exc |-> "none", val |-> token_result.access_token]

\* ------------------------------------------------------------------------
\* POST /availability: check_availability
\* ------------------------------------------------------------------------

\* Lines 89-90: the token is acquired before anything else.
AvailabilityGetToken ==
    /\ pc = "idle"
    /\ \E req \in AvailabilityRequests, tok \in TokenResults :
        /\ endpoint' = "availability"
        /\ request' = req
        /\ calls' = <<Call("get_token", "client_credentials", tok)>>
        /\ IF get_token(tok).exc # "none"
           THEN pc' = "done" /\ result' = Unhandled(get_token(tok).exc)
           ELSE pc' = "find" /\ result' = Pending
    /\ UNCHANGED <<response, outlook_event_id, uid, start_fmt, stop_fmt,
                   fn, arg, ret>>

\* Line 112: the test deciding that findMeetingTimes failed.
AvailabilityFailedNon2xx(status_code) == status_code \notin 200..299
AvailabilityFailed(status_code) == status_code # HTTP_OK

\* Lines 111-114: how the request ends on the calendar API's response.
AvailabilityResult(resp) ==
    IF resp.raised THEN Unhandled("ConnectionError")
    ELSE IF AvailabilityFailed(resp.status_code)
         THEN IF Json(resp.body).exc # "none"
              THEN Unhandled(Json(resp.body).exc)
              ELSE HTTPException(resp.status_code, Json(resp.body).val)
    ELSE IF Json(resp.body).exc # "none" THEN Unhandled(Json(resp.body).exc)
    ELSE Return(Json(resp.body).val)

\* Lines 92-114: the findMeetingTimes call and the handler's answer.
AvailabilityFindMeetingTimes ==
    /\ pc = "find"
    /\ endpoint = "availability"
    /\ \E resp \in GraphFindResponses :
        /\ calls' = Append(calls,
               Call("graph.findMeetingTimes",
                    [start |-> StripOffset(request.start_time),
                     end |-> StripOffset(request.end_time),
                     meetingDuration |-> request.duration],
                    resp))
        /\ response' = resp
        /\ result' = AvailabilityResult(resp)
    /\ pc' = "done"
    /\ UNCHANGED <<endpoint, request, outlook_event_id, uid, start_fmt,
                   stop_fmt, fn, arg, ret>>

\* ------------------------------------------------------------------------
\* POST /book: book_meeting, with create_odoo_event
\* ------------------------------------------------------------------------

\* Line 121: the token is acquired before anything else.
BookGetToken ==
    /\ pc = "idle"
    /\ \E req \in BookRequests, tok \in TokenResults :
        /\ endpoint' = "book"
        /\ request' = req
        /\ calls' = <<Call("get_token", "client_credentials", tok)>>
        /\ IF get_token(tok).exc # "none"
           THEN pc' = "done" /\ result' = Unhandled(get_token(tok).exc)
           ELSE pc' = "outlook" /\ result' = Pending
    /\ UNCHANGED <<response, outlook_event_id, uid, start_fmt, stop_fmt,
                   fn, arg, ret>>

\* Line 155: the test deciding that the Outlook booking failed.
OutlookBookingFailed(status_code) == status_code # HTTP_CREATED

\* Line 164: outlook_event_id = data.get("id").
OutlookEventIdFromSubject(data) == DictGet(data.m, "subject")
OutlookEventId(data) == DictGet(data.m, "id")

\* Lines 153-164: the exception the calendar step ends the request with, or
\* Pending when the handler goes on to the CRM step.
OutlookStep(resp) ==
    IF resp.raised THEN Unhandled("ConnectionError")
    ELSE IF OutlookBookingFailed(resp.status_code)
         THEN IF Json(resp.body).exc # "none"
              THEN Unhandled(Json(resp.body).exc)
              ELSE HTTPException(resp.status_code,
                                 [error |-> "Outlook booking failed",
                                  response |-> Json(resp.body).val])
    ELSE IF Json(resp.body).exc # "none" THEN Unhandled(Json(resp.body).exc)
    ELSE IF Json(resp.body).val.kind # "object" THEN Unhandled("AttributeError")
    ELSE Pending

\* Lines 152-166: create the event in Outlook.
BookCreateOutlookEvent ==
    /\ pc = "outlook"
    /\ endpoint = "book"
    /\ \E resp \in GraphEventResponses :
        /\ calls' = Append(calls,
               Call("outlook.create_event",
                    [subject |-> request.subject,
                     start |-> request.start_time,
                     end |-> request.end_time,
                     attendee |-> request.attendee],
                    resp))
        /\ response' = resp
        /\ result' = OutlookStep(resp)
        /\ IF OutlookStep(resp).kind = "pending"
           THEN /\ pc' = "odoo_auth"
                /\ outlook_event_id' = OutlookEventId(Json(resp.body).val)
           ELSE /\ pc' = "done"
                /\ UNCHANGED outlook_event_id
    /\ UNCHANGED <<endpoint, request, uid, start_fmt, stop_fmt, fn, arg, ret>>

\* Lines 183-192: the summary book_meeting returns.
BookSummary(req, data, outlook_id, odoo_id) ==
    Return([status |-> "Outlook meeting booked successfully",
            outlook_event_id |-> outlook_id,
            odoo_event_id |-> odoo_id,
            subject |-> DictGet(data.m, "subject"),
            start |-> DictGet(data.m, "start"),
            end |-> DictGet(data.m, "end"),
            attendee |-> req.attendee,
            phone |-> req.phone])

\* Lines 178-192: create_odoo_event raised exc; the handler sets
\* odoo_event_id = None and returns the summary.
BookOnOdooExceptionReraise(req, data, outlook_id, exc) == Unhandled(exc)
BookOnOdooException(req, data, outlook_id, exc) ==
    BookSummary(req, data, outlook_id, JNull)

\* Line 243: the test deciding that the CRM authentication failed.
AuthFailedOnlyIfMissing(u) == u.t = "null"
AuthFailed(u) == ~Truthy(u) \/ ~IsInstanceInt(u)

\* Lines 241-244: the uid the authenticate call gives, or the exception.
OdooAuthStep(resp) ==
    IF resp.raised THEN [exc |-> "ConnectionError", val |-> JNull]
    ELSE IF Json(resp.body).exc # "none"
         THEN [exc |-> Json(resp.body).exc, val |-> JNull]
    ELSE IF Json(resp.body).val.kind # "object"
         THEN [exc |-> "AttributeError", val |-> JNull]
    ELSE IF AuthFailed(DictGet(Json(resp.body).val.m, "result"))
         THEN [exc |-> "Exception", val |-> JNull]
    ELSE [exc |-> "none", val |-> DictGet(Json(resp.body).val.m, "result")]

\* Lines 168-180 and 220-262: create_odoo_event authenticates and cleans the
\* datetimes; a failure is caught by book_meeting, which returns the summary.
OdooAuthenticate ==
    /\ pc = "odoo_auth"
    /\ endpoint = "book"
    /\ \E resp \in OdooAuthResponses :
        /\ calls' = Append(calls,
               Call("odoo.authenticate", "common.authenticate", resp))
        /\ IF OdooAuthStep(resp).exc # "none"
           THEN /\ pc' = "done"
                /\ result' = BookOnOdooException(request, response.body,
                                 outlook_event_id, OdooAuthStep(resp).exc)
                /\ UNCHANGED <<uid, start_fmt, stop_fmt>>
           ELSE /\ pc' = "odoo_create"
                /\ uid' = OdooAuthStep(resp).val
                /\ start_fmt' = clean_datetime(request.start_time).val
                /\ stop_fmt' = clean_datetime(request.end_time).val
                /\ UNCHANGED result
    /\ UNCHANGED <<endpoint, request, response, outlook_event_id, fn, arg, ret>>

\* Line 295: event_id = r.get("result").
OdooEventIdFromId(r) == DictGet(r.m, "id")
OdooEventId(r) == DictGet(r.m, "result")

\* Lines 290-297: the event id the create call gives, or the exception.
OdooCreateStep(resp) ==
    IF resp.raised THEN [exc |-> "ConnectionError", val |-> JNull]
    ELSE IF Json(resp.body).exc # "none"
         THEN [exc |-> Json(resp.body).exc, val |-> JNull]
    ELSE IF Json(resp.body).val.kind = "object"
            /\ "error" \in DOMAIN Json(resp.body).val.m
         THEN [exc |-> "Exception", val |-> JNull]
    ELSE IF Json(resp.body).val.kind # "object"
         THEN [exc |-> "AttributeError", val |-> JNull]
    ELSE [exc |-> "none", val |-> OdooEventId(Json(resp.body).val)]

\* Lines 266-297 and 178-192: create_odoo_event creates the CRM event, and
\* book_meeting returns the summary.
OdooCreateEvent ==
    /\ pc = "odoo_create"
    /\ endpoint = "book"
    /\ \E resp \in OdooCreateResponses :
        /\ calls' = Append(calls,
               Call("odoo.create",
                    [uid |-> uid,
                     name |-> <<request.subject, " - ", request.attendee_name>>,
                     start |-> start_fmt,
                     stop |-> stop_fmt,
                     description |-> <<"Email: ", request.attendee,
                                       "\nPhone: ", request.phone>>],
                    resp))
        /\ result' =
              IF OdooCreateStep(resp).exc # "none"
              THEN BookOnOdooException(request, response.body,
                       outlook_event_id, OdooCreateStep(resp).exc)
              ELSE BookSummary(request, response.body, outlook_event_id,
                               OdooCreateStep(resp).val)
    /\ pc' = "done"
    /\ UNCHANGED <<endpoint, request, response, outlook_event_id, uid,
                   start_fmt, stop_fmt, fn, arg, ret>>

\* ------------------------------------------------------------------------
\* POST /sms_confirmation: send_sms_confirmation
\* ------------------------------------------------------------------------

\* Lines 197-201: both times are formatted before the gateway client exists.
SmsFormatTimes ==
    /\ pc = "idle"
    /\ \E req \in SmsRequests, host_off \in HostOffsets :
        LET s == format_datetime(req.start_time, host_off)
            e == format_datetime(req.end_time, host_off)
        IN  /\ endpoint' = "sms_confirmation"
            /\ request' = req
            /\ IF s.exc # "none"
               THEN /\ pc' = "done"
                    /\ result' = Unhandled(s.exc)
                    /\ UNCHANGED <<start_fmt, stop_fmt>>
               ELSE IF e.exc # "none"
               THEN /\ pc' = "done"
                    /\ result' = Unhandled(e.exc)
                    /\ start_fmt' = s.val
                    /\ UNCHANGED stop_fmt
               ELSE /\ pc' = "sms_send"
                    /\ result' = Pending
                    /\ start_fmt' = s.val
                    /\ stop_fmt' = e.val
    /\ UNCHANGED <<calls, response, outlook_event_id, uid, fn, arg, ret>>

\* Lines 205-209: the text of the message.
SmsBody(start, end) ==
    <<"Your meeting with Tracey has been booked for ", start, " to ", end,
      ". If you need to make changes, please call: 0483 905 455">>

\* Lines 203-217: the gateway call and the handler's answer.
SmsSend ==
    /\ pc = "sms_send"
    /\ endpoint = "sms_confirmation"
    /\ \E outcome \in TwilioOutcomes :
        /\ calls' = Append(calls,
               Call("twilio.messages.create",
                    [to |-> request.phone,
                     body |-> SmsBody(start_fmt, stop_fmt)],
                    outcome))
        /\ result' = IF outcome = "sent"
                     THEN Return([status |-> <<"SMS sent to ", request.phone>>])
                     ELSE Unhandled(outcome)
    /\ pc' = "done"
    /\ UNCHANGED <<endpoint, request, response, outlook_event_id, uid,
                   start_fmt, stop_fmt, fn, arg, ret>>

\* ------------------------------------------------------------------------
\* The response is sent; nothing of the request is kept
\* ------------------------------------------------------------------------

Respond ==
    /\ pc = "done"
    /\ endpoint' = "none"
    /\ pc' = "idle"
    /\ request' = NoRequest
    /\ calls' = <<>>
    /\ response' = NoResponse
    /\ outlook_event_id' = JNull
    /\ uid' = JNull
    /\ start_fmt' = <<>>
    /\ stop_fmt' = <<>>
    /\ result' = Pending
    /\ UNCHANGED <<fn, arg, ret>>

Next ==
    \/ AvailabilityGetToken
    \/ AvailabilityFindMeetingTimes
    \/ BookGetToken
    \/ BookCreateOutlookEvent
    \/ OdooAuthenticate
    \/ OdooCreateEvent
    \/ SmsFormatTimes
    \/ SmsSend
    \/ Respond

Spec == Init /\ [][Next]_vars

\* ------------------------------------------------------------------------
\* The datetime transforms applied to one input
\* ------------------------------------------------------------------------

InitNormalizer ==
    /\ Idle
    /\ fn = "none"
    /\ arg \in Inputs
    /\ ret = NoReturn

CallCleanDatetime ==
    /\ fn = "none"
    /\ fn' = "clean_datetime"
    /\ ret' = clean_datetime(arg)
    /\ UNCHANGED <<arg, handlerVars>>

CallStripOffset ==
    /\ fn = "none"
    /\ fn' = "strip_offset"
    /\ ret' = [exc |-> "none", val |-> StripOffset(arg)]
    /\ UNCHANGED <<arg, handlerVars>>

CallFormatDatetime ==
    /\ fn = "none"
    /\ fn' = "format_datetime"
    /\ \E host_off \in HostOffsets : ret' = format_datetime(arg, host_off)
    /\ UNCHANGED <<arg, handlerVars>>

NextNormalizer == CallCleanDatetime \/ CallStripOffset \/ CallFormatDatetime

SpecNormalizer == InitNormalizer /\ [][NextNormalizer]_vars

\* ------------------------------------------------------------------------
\* Properties
\* ------------------------------------------------------------------------

\* Positions in calls of the calls to op, and the response of a call.
CallsOf(op) == {i \in 1..Len(calls) : calls[i].op = op}
OdooCalls == CallsOf("odoo.authenticate") \cup CallsOf("odoo.create")

\* The calendar create-event call returned "created".
Created(r) == ~r.raised /\ r.status_code = 201
\* The CRM did not answer the authenticate call with an integer uid.
AuthRejected(r) ==
    \/ r.raised
    \/ r.body.kind # "object"
    \/ LET u == DictGet(r.body.m, "result")
       IN  u.t \notin {"int", "bool"} \/ u.v \in {"0", "false"}
\* The CRM was unreachable, or answered the create call with no JSON object
\* or with an error object.
CreateRejected(r) ==
    \/ r.raised
    \/ r.body.kind # "object"
    \/ "error" \in DOMAIN r.body.m
\* The CRM step of the request failed.
CrmFailed ==
    \/ \E i \in CallsOf("odoo.authenticate") : AuthRejected(calls[i].response)
    \/ \E i \in CallsOf("odoo.create") : CreateRejected(calls[i].response)
\* The /book request has ended in a success response.
BookReturned == endpoint = "book" /\ pc = "done" /\ result.kind = "return"

\* C1: when the calendar create-event call returns anything other than 201,
\* no CRM call is made and the request ends as an HTTP error carrying the
\* upstream status code and the upstream body; a CRM call only follows a
\* calendar create that returned 201.
C1_CalendarFailureCarriesUpstream ==
    endpoint = "book" =>
        /\ \A i \in CallsOf("outlook.create_event") :
              LET r == calls[i].response
              IN  (~r.raised /\ r.status_code # 201) =>
                    /\ OdooCalls = {}
                    /\ pc = "done"
                    /\ result.kind = "HTTPException"
                    /\ result.status = r.status_code
                    /\ result.body.response = r.body
        /\ \A j \in OdooCalls :
              \E i \in CallsOf("outlook.create_event") :
                  i < j /\ Created(calls[i].response)

\* C1, the part the code keeps: after a calendar create that did not return
\* 201 the request is over, as an error, and no CRM call was made; a CRM
\* call only follows a calendar create that returned 201.
C1_NoCrmCallUnlessCreated ==
    endpoint = "book" =>
        /\ \A i \in CallsOf("outlook.create_event") :
              ~Created(calls[i].response) =>
                    /\ OdooCalls = {}
                    /\ pc = "done"
                    /\ result.kind \in {"HTTPException", "unhandled"}
        /\ \A j \in OdooCalls :
              \E i \in CallsOf("outlook.create_event") :
                  i < j /\ Created(calls[i].response)

\* C2: once the calendar create has returned 201, a failure of the CRM step
\* (authentication failure, error object, CRM unreachable) is absorbed: the
\* request ends in a success response with odoo_event_id null and
\* outlook_event_id the id of the calendar event, never in an error.
C2_CrmFailureAbsorbed ==
    (endpoint = "book" /\ CrmFailed) =>
        /\ pc = "done"
        /\ result.kind = "return"
        /\ result.status = 200
        /\ result.body.odoo_event_id = JNull
        /\ result.body.outlook_event_id = DictGet(response.body.m, "id")
        /\ Created(response)

C2_Witness ==
    /\ BookReturned
    /\ \E i \in CallsOf("odoo.create") : calls[i].response.body = RpcErrorBody
    /\ result.body.odoo_event_id = JNull
    /\ result.body.outlook_event_id = JStr("E1")

\* C3 as claimed: whenever the calendar create returns 201, the result /book
\* returns has a non-null outlook_event_id, whatever the 201 body holds.
C3_CalendarIdNeverNull ==
    BookReturned => result.body.outlook_event_id # JNull

\* C3 as amended: the outlook_event_id of the result is the "id" member of
\* the 201 body, whatever the CRM outcome; a 201 body with a non-null id
\* always ends in a success response with that id.
C3_CalendarIdIsBodyId ==
    /\ BookReturned =>
          /\ Created(response)
          /\ result.body.outlook_event_id = DictGet(response.body.m, "id")
    /\ ( /\ endpoint = "book" /\ pc = "done"
         /\ Created(response)
         /\ response.body.kind = "object"
         /\ DictGet(response.body.m, "id") # JNull )
       => /\ result.kind = "return"
          /\ result.body.outlook_event_id # JNull

C3_Witness ==
    /\ BookReturned
    /\ CrmFailed
    /\ response.body = OutlookEventBody
    /\ result.body.outlook_event_id = JStr("E1")

\* C4 as claimed: odoo_event_id is null exactly when the CRM step failed;
\* when the CRM create call returns without an error object, both ids of
\* the result are non-null.
C4_CrmIdNullIffFailed ==
    BookReturned =>
        /\ (result.body.odoo_event_id = JNull) <=> CrmFailed
        /\ ~CrmFailed => /\ result.body.outlook_event_id # JNull
                         /\ result.body.odoo_event_id # JNull

\* C4 as amended: odoo_event_id is null whenever the CRM step failed; when
\* the CRM create call returns an object without an error member,
\* odoo_event_id is the "result" member of that object (null when it has
\* none); a non-null odoo_event_id is the result of a create call that
\* returned without error.
C4_CrmIdIsCreateResult ==
    BookReturned =>
        /\ CrmFailed => result.body.odoo_event_id = JNull
        /\ ~CrmFailed =>
              \E i \in CallsOf("odoo.create") :
                  result.body.odoo_event_id
                      = DictGet(calls[i].response.body.m, "result")
        /\ result.body.odoo_event_id # JNull => ~CrmFailed

C4_Witness ==
    /\ BookReturned
    /\ ~CrmFailed
    /\ result.body.outlook_event_id = JStr("E1")
    /\ result.body.odoo_event_id = JInt("42")

\* C5: a /book request makes each external call at most once; it makes no
\* CRM create call when the calendar step or the CRM authentication failed;
\* and no calendar call follows a CRM call.
C5_NoRetryNoRollback ==
    endpoint = "book" =>
        /\ \A op \in {"get_token", "outlook.create_event",
                      "odoo.authenticate", "odoo.create"} :
              Cardinality(CallsOf(op)) <= 1
        /\ (\E i \in CallsOf("outlook.create_event") :
                ~Created(calls[i].response)) => OdooCalls = {}
        /\ (\E i \in CallsOf("odoo.authenticate") :
                AuthRejected(calls[i].response)) => CallsOf("odoo.create") = {}
        /\ \A i \in OdooCalls : \A j \in CallsOf("outlook.create_event") : j < i
        /\ (CrmFailed /\ pc = "done") => calls[Len(calls)].op \in
              {"odoo.authenticate", "odoo.create"}

C5_Witness ==
    /\ endpoint = "book" /\ pc = "done"
    /\ Cardinality(CallsOf("outlook.create_event")) = 1
    /\ Cardinality(CallsOf("odoo.create")) = 1
    /\ CrmFailed
    /\ Len(calls) = 4

\* Whether the text parses as an ISO-8601 timestamp, a trailing Z read as UTC.
Parseable(s) ==
    FromIsoFormat(Replace(s, "Z", <<"+", "0", "0", ":", "0", "0">>)).exc = "none"

\* C6: in /sms_confirmation an unparseable start_time or end_time ends the
\* request in an error and the gateway's send call is never made; the send
\* call is only made after both times were formatted.
C6_ParseFailureAborts ==
    endpoint = "sms_confirmation" =>
        /\ (~Parseable(request.start_time) \/ ~Parseable(request.end_time)) =>
              /\ pc = "done"
              /\ result.kind = "unhandled"
              /\ result.status >= 400
              /\ CallsOf("twilio.messages.create") = {}
        /\ CallsOf("twilio.messages.create") # {} =>
              /\ Parseable(request.start_time)
              /\ Parseable(request.end_time)
              /\ \A i \in CallsOf("twilio.messages.create") :
                    calls[i].payload.body = SmsBody(start_fmt, stop_fmt)

C6_Witness ==
    /\ endpoint = "sms_confirmation" /\ pc = "done"
    /\ request.start_time = SmsZulu
    /\ request.end_time = Garbage
    /\ result.kind = "unhandled"
    /\ calls = <<>>

\* The /availability request has had its answer from the calendar API.
AvailabilityAnswered ==
    endpoint = "availability" /\ pc = "done" /\ ~response.raised
    /\ CallsOf("graph.findMeetingTimes") # {}

C8_CleanDatetimeNaiveForm ==
    (fn = "clean_datetime"
        /\ arg \in {DocPlain, DocFraction, DocZulu, DocOffset})
    => ret = [exc |-> "none", val |-> DocNaive]

\* The part of s before its first c (all of s when it has no c), and the
\* part after it.
BeforeFirst(s, c) ==
    IF \E i \in 1..Len(s) : s[i] = c
    THEN SubSeq(s, 1, (CHOOSE i \in 1..Len(s) :
                          s[i] = c /\ \A j \in 1..(i - 1) : s[j] # c) - 1)
    ELSE s
AfterFirst(s, c) == SubSeq(s, Len(BeforeFirst(s, c)) + 2, Len(s))
HasChar(s, c) == \E i \in 1..Len(s) : s[i] = c

\* What C9 says clean_datetime returns for an input with a 'T'.
CleanJoined(s) ==
    BeforeFirst(s, "T") \o <<" ">>
        \o BeforeFirst(BeforeFirst(AfterFirst(s, "T"), "T"), ".")

\* r is x without the whitespace at its two ends.
IsStripOf(r, x) ==
    /\ r # <<>> => r[1] \notin Whitespace /\ r[Len(r)] \notin Whitespace
    /\ \E a \in 0..Len(x) :
          /\ a + Len(r) <= Len(x)
          /\ r = SubSeq(x, a + 1, a + Len(r))
          /\ \A i \in 1..a : x[i] \in Whitespace
          /\ \A i \in (a + Len(r) + 1)..Len(x) : x[i] \in Whitespace

\* C9 as claimed: clean_datetime never raises; with a 'T' in the input the
\* result is the part before the first 'T', one space, and the part between
\* the first and second 'T' cut at its first '.'; with no 'T' it is the
\* input cut at its first '.'.
C9_CleanDatetimeJoined ==
    fn = "clean_datetime" =>
        /\ ret.exc = "none"
        /\ ret.val = IF HasChar(arg, "T") THEN CleanJoined(arg)
                     ELSE BeforeFirst(arg, ".")

\* C9 as amended: clean_datetime never raises; with a 'T' in the input the
\* result is that joined string without the whitespace at its two ends;
\* with no 'T' it is the input cut at its first '.'.
C9_CleanDatetimeJoinedStripped ==
    fn = "clean_datetime" =>
        /\ ret.exc = "none"
        /\ IF HasChar(arg, "T") THEN IsStripOf(ret.val, CleanJoined(arg))
           ELSE ret.val = BeforeFirst(arg, ".")

C9_Witness ==
    /\ fn = "clean_datetime"
    /\ arg = <<"T", "0", ".">>
    /\ ret = [exc |-> "none", val |-> <<"0">>]

\* C10: the strip-offset transform returns the prefix of its input before
\* the first '+': a '+HH:MM' offset is dropped, an input with no '+' is
\* unchanged, and a '-HH:MM' offset stays.
C10_StripOffsetPrefix ==
    fn = "strip_offset" =>
        /\ ret.exc = "none"
        /\ Len(ret.val) <= Len(arg)
        /\ ret.val = SubSeq(arg, 1, Len(ret.val))
        /\ ~HasChar(ret.val, "+")
        /\ Len(ret.val) < Len(arg) => arg[Len(ret.val) + 1] = "+"
        /\ arg = OffsetIn => ret.val = OffsetOut
        /\ arg = NegOffset => ret.val = NegOffset

C10_Witness ==
    /\ fn = "strip_offset"
    /\ arg = OffsetIn
    /\ ret.val = OffsetOut

====
